---------------------------- MODULE Spec2Model ----------------------------
(***************************************************************************)
(* A model of the AutoKeras input nodes (autokeras/nodes.py) and of the   *)
(* preprocessing layers MultiCategoryEncoding and                         *)
(* TextVectorizationWithTokenizer (autokeras/keras_layers.py).            *)
(*                                                                         *)
(* Three state machines share the module: Spec (one input node),          *)
(* EncSpec (one MultiCategoryEncoding layer) and TokSpec (one             *)
(* TextVectorizationWithTokenizer layer).  The variables of the machines  *)
(* a specification does not run stay at their idle value.                 *)
(*                                                                         *)
(* Python values: an optional value is None or Some(x); a shape is an     *)
(* optional tuple of dimensions and a dimension is an optional integer    *)
(* (None is the unknown dimension of the framework).  A call returns      *)
(* Ok(value) or Err(exception name).                                      *)
(***************************************************************************)
EXTENDS Integers, Sequences, FiniteSets, TLC

VARIABLES node, last, layer, enc_last, max_seq_len, tok_last

vars == <<node, last, layer, enc_last, max_seq_len, tok_last>>

\* ------------------------------------------------------------------ bounds
MaxDim == 2
MaxLookback == 2
MaxCells == 2
MaxSeqLen == 5
MaxWords == 2

\* ------------------------------------------------------------ Python values
None == {}
Some(x) == {x}
Val(o) == CHOOSE x \in o : TRUE

Ok(v) == [status |-> "ok", value |-> v]
Err(e) == [status |-> "error", error |-> e]

Idle == [op |-> "idle"]

\* ------------------------------------------------------------------- nodes
Kinds ==
    {"Input", "ImageInput", "TextInput", "StructuredDataInput", "TimeseriesInput"}

HasColumns(kind) == kind \in {"StructuredDataInput", "TimeseriesInput"}

\* The values a caller, an adapter or an analyser can supply.
Dims == {Some(d) : d \in 1..MaxDim}
Shapes ==
    {None} \cup {Some(s) : s \in {<<>>} \cup {<<f>> : f \in Dims}
                                 \cup {<<a, f>> : a \in Dims, f \in Dims}}
ColumnNames == {None, Some(<<"age", "city">>)}
ColumnTypes == {None, Some([age |-> "numerical", city |-> "categorical"])}
Lookbacks == {None} \cup {Some(k) : k \in 1..MaxLookback}

\* Node.__init__(shape=None) of the engine: the base node keeps its shape.
Node_init(kind, kw) == [kind |-> kind, shape |-> kw.shape]

\* The constructors, called with keyword arguments kw; a keyword a
\* constructor does not name goes to the base constructor in **kwargs.
Input_init(kind, kw) == Node_init(kind, kw)

ImageInput_init(kw) ==
    [kind |-> "ImageInput", shape |-> kw.shape, has_channel_dim |-> FALSE]

StructuredDataInput_init(kw) ==
    [kind |-> "StructuredDataInput", shape |-> kw.shape,
     column_names |-> kw.column_names, column_types |-> kw.column_types]

TimeseriesInput_init(kw) ==
    [kind |-> "TimeseriesInput", shape |-> kw.shape, lookback |-> kw.lookback,
     column_names |-> kw.column_names, column_types |-> kw.column_types]

\* The defaults of the keyword arguments a configuration does not carry.
Defaults ==
    [shape |-> None, column_names |-> None, column_types |-> None,
     lookback |-> None]

WithDefaults(config) ==
    [k \in DOMAIN Defaults |->
        IF k \in DOMAIN config THEN config[k] ELSE Defaults[k]]

New(kind, kw) ==
    CASE kind = "ImageInput" -> ImageInput_init(kw)
      [] kind = "StructuredDataInput" -> StructuredDataInput_init(kw)
      [] kind = "TimeseriesInput" -> TimeseriesInput_init(kw)
      [] OTHER -> Input_init(kind, kw)

\* tf.keras.Input(shape=..., dtype=...): without a shape it raises
\* ValueError; with one it returns the symbolic tensor of that shape, whose
\* dimensions may be None (unknown).
KerasInput(shape, dtype) ==
    IF shape = None THEN Err("ValueError")
    ELSE Ok([shape |-> Val(shape), dtype |-> dtype])

\* Every operation maps the node to [node |-> node after, ret |-> result].
Input_build(n) == [node |-> n, ret |-> KerasInput(n.shape, "float32")]

TextInput_build(n) == [node |-> n, ret |-> KerasInput(n.shape, "string")]

StructuredDataInput_build(n) ==
    [node |-> n, ret |-> KerasInput(n.shape, "string")]

\* A plausible slip: the two dimensions in the other order.
TimeseriesInput_build_swapped(n) ==
    IF n.shape = None THEN [node |-> n, ret |-> Err("TypeError")]
    ELSE LET s == Val(n.shape)
             new == IF Len(s) = 1 THEN Some(<<s[1], n.lookback>>) ELSE n.shape
         IN  [node |-> [n EXCEPT !.shape = new],
              ret |-> KerasInput(new, "float32")]

\* len(self.shape) raises TypeError on None; a one-dimensional shape is
\* replaced ON THE NODE by (lookback, shape[0]) before the input is made.
TimeseriesInput_build(n) ==
    IF n.shape = None THEN [node |-> n, ret |-> Err("TypeError")]
    ELSE LET s == Val(n.shape)
             new == IF Len(s) = 1 THEN Some(<<n.lookback, s[1]>>) ELSE n.shape
         IN  [node |-> [n EXCEPT !.shape = new],
              ret |-> KerasInput(new, "float32")]

build(n) ==
    CASE n.kind = "TextInput" -> TextInput_build(n)
      [] n.kind = "StructuredDataInput" -> StructuredDataInput_build(n)
      [] n.kind = "TimeseriesInput" -> TimeseriesInput_build(n)
      [] OTHER -> Input_build(n)

\* The adapter is built from the node's fields; it is named by its class
\* and its constructor arguments.
get_adapter(n) ==
    [node |-> n,
     ret |-> Ok(
        CASE n.kind = "Input" -> [class |-> "InputAdapter"]
          [] n.kind = "ImageInput" -> [class |-> "ImageAdapter"]
          [] n.kind = "TextInput" -> [class |-> "TextInputAdapter"]
          [] n.kind = "StructuredDataInput" ->
                [class |-> "StructuredDataInputAdapter",
                 column_names |-> n.column_names,
                 column_types |-> n.column_types]
          [] n.kind = "TimeseriesInput" ->
                [class |-> "TimeseriesInputAdapter", lookback |-> n.lookback,
                 column_names |-> n.column_names,
                 column_types |-> n.column_types])]

get_analyser(n) ==
    [node |-> n,
     ret |-> Ok([class |-> IF n.kind = "ImageInput" THEN "ImageAnalyser"
                           ELSE "InputAnalyser"])]

\* Input.config_from_analyser is `pass`; only the image node overrides it.
config_from_analyser(n, analyser) ==
    [node |-> IF n.kind = "ImageInput"
              THEN [n EXCEPT !.has_channel_dim = analyser.has_channel_dim]
              ELSE n,
     ret |-> Ok(None)]

\* IOHyperModel.config_from_adapter of the engine, reached through super():
\* it copies none of the fields the node classes declare.
IOHyperModel_config_from_adapter(n, adapter) == n

config_from_adapter(n, adapter) ==
    LET b == IOHyperModel_config_from_adapter(n, adapter)
    IN  [node |->
            CASE n.kind = "StructuredDataInput" ->
                    [b EXCEPT !.column_names = adapter.column_names,
                              !.column_types = adapter.column_types]
              [] n.kind = "TimeseriesInput" ->
                    [b EXCEPT !.lookback = adapter.lookback,
                              !.column_names = adapter.column_names,
                              !.column_types = adapter.column_types]
              [] OTHER -> b,
         ret |-> Ok(None)]

AddOneDimension == "DefaultHyperPreprocessor(AddOneDimension)"

\* A plausible slip: the test of has_channel_dim inverted.
ImageInput_get_hyper_preprocessors_inverted(n) ==
    IF n.has_channel_dim THEN <<AddOneDimension>> ELSE <<>>

ImageInput_get_hyper_preprocessors(n) ==
    IF ~n.has_channel_dim THEN <<AddOneDimension>> ELSE <<>>

get_hyper_preprocessors(n) ==
    [node |-> n,
     ret |-> Ok(IF n.kind = "ImageInput"
                THEN ImageInput_get_hyper_preprocessors(n) ELSE <<>>)]

\* Node.get_config of the engine: the constructor argument of the base node.
Node_get_config(n) == [shape |-> n.shape]

get_config(n) ==
    CASE n.kind = "StructuredDataInput" ->
            [shape |-> n.shape, column_names |-> n.column_names,
             column_types |-> n.column_types]
      [] n.kind = "TimeseriesInput" ->
            [shape |-> n.shape, lookback |-> n.lookback,
             column_names |-> n.column_names, column_types |-> n.column_types]
      [] OTHER -> Node_get_config(n)

\* serialize: the class name and get_config().
serialize(n) == [class_name |-> n.kind, config |-> get_config(n)]

\* deserialize: the class looked up by name, built by cls(**config).
deserialize(c) == New(c.class_name, WithDefaults(c.config))

\* ----------------------------------------------------------- node machine
IdleEnc == [encoding |-> <<>>, encoding_layers |-> <<>>]

NodeFrame == UNCHANGED <<layer, enc_last, max_seq_len, tok_last>>

Apply(op, arg, r) ==
    /\ node' = r.node
    /\ last' = [op |-> op, arg |-> arg, pre |-> node, ret |-> r.ret,
                analysed |-> IF op = "config_from_analyser" THEN Some(arg)
                             ELSE last.analysed]
    /\ NodeFrame

Init ==
    /\ \E kind \in Kinds, shape \in Shapes, names \in ColumnNames,
          types \in ColumnTypes, lookback \in Lookbacks :
          /\ (~HasColumns(kind)) => (names = None /\ types = None)
          /\ kind # "TimeseriesInput" => lookback = None
          /\ node = New(kind, [shape |-> shape, column_names |-> names,
                               column_types |-> types, lookback |-> lookback])
    /\ last = [op |-> "init", analysed |-> None]
    /\ layer = IdleEnc
    /\ enc_last = Idle
    /\ max_seq_len = 0
    /\ tok_last = Idle

Build == Apply("build", None, build(node))

GetAdapter == Apply("get_adapter", None, get_adapter(node))

GetAnalyser == Apply("get_analyser", None, get_analyser(node))

ConfigFromAnalyser ==
    \E has \in BOOLEAN :
        LET analyser == [has_channel_dim |-> has]
        IN  Apply("config_from_analyser", analyser,
                  config_from_analyser(node, analyser))

ConfigFromAdapter ==
    \E names \in ColumnNames, types \in ColumnTypes, lookback \in Lookbacks :
        LET adapter == [column_names |-> names, column_types |-> types,
                        lookback |-> lookback]
        IN  Apply("config_from_adapter", adapter,
                  config_from_adapter(node, adapter))

GetHyperPreprocessors ==
    Apply("get_hyper_preprocessors", None, get_hyper_preprocessors(node))

\* The node is saved and the pipeline goes on with the restored node, a new
\* object on which no analyser has reported yet.
Restore ==
    /\ node' = deserialize(serialize(node))
    /\ last' = [op |-> "restore", arg |-> None, pre |-> node, ret |-> Ok(None),
                analysed |-> None]
    /\ NodeFrame

Next ==
    \/ Build
    \/ GetAdapter
    \/ GetAnalyser
    \/ ConfigFromAnalyser
    \/ ConfigFromAdapter
    \/ GetHyperPreprocessors
    \/ Restore

Spec == Init /\ [][Next]_vars

\* ------------------------------------------------------------ node claims
ReadOps == {"build", "get_adapter", "get_analyser", "get_hyper_preprocessors"}

\* The configuration a build needs is unresolved: no shape, or, on a node
\* with columns, no column names or types, or no lookback on a time series.
Unresolved(n) ==
    \/ n.shape = None
    \/ HasColumns(n.kind) /\ (n.column_names = None \/ n.column_types = None)
    \/ n.kind = "TimeseriesInput" /\ n.lookback = None

\* C1: build() on a node whose required configuration is unresolved ends in
\* an error and never returns a symbolic input.
C1_BuildUnresolvedFails ==
    (last.op = "build" /\ Unresolved(last.pre)) => last.ret.status = "error"

\* C2: a TimeseriesInput with a resolved shape builds: a one-dimensional
\* shape (f,) with resolved lookback k gives the input shape (k, f), a shape
\* of any other rank is used as it is.
C2_TimeseriesBuildShape ==
    (last.op = "build" /\ last.pre.kind = "TimeseriesInput"
        /\ last.pre.shape # None) =>
        LET s == Val(last.pre.shape)
        IN  /\ (Len(s) = 1 /\ last.pre.lookback # None) =>
                  /\ last.ret.status = "ok"
                  /\ last.ret.value.shape = <<last.pre.lookback, s[1]>>
            /\ Len(s) # 1 =>
                  /\ last.ret.status = "ok"
                  /\ last.ret.value.shape = s

\* A time series node with lookback 2 and shape (1,) has been built.
C2_Witness ==
    /\ last.op = "build"
    /\ last.pre.kind = "TimeseriesInput"
    /\ last.pre.shape = Some(<<Some(1)>>)
    /\ last.pre.lookback = Some(2)
    /\ last.ret.status = "ok"

\* What the pipeline reads from a node: the built input, the chain of hyper
\* preprocessors and the adapter's arguments.
Behaviour(n) ==
    [build |-> build(n).ret,
     hyper_preprocessors |-> get_hyper_preprocessors(n).ret,
     adapter |-> get_adapter(n).ret]

\* C8: the node rebuilt from its saved configuration behaves as the node
\* that was saved.
C8_RoundTrip == Behaviour(deserialize(serialize(node))) = Behaviour(node)

\* C9: the chain of an image node holds exactly the add-one-dimension step
\* when its latest config_from_analyser reported no channel dimension and is
\* empty when it reported one, however many other calls came in between;
\* the chain of every other node is empty.
C9_HyperPreprocessors ==
    last.op = "get_hyper_preprocessors" =>
        /\ last.ret.status = "ok"
        /\ last.pre.kind # "ImageInput" => last.ret.value = <<>>
        /\ (last.pre.kind = "ImageInput" /\ last.analysed # None) =>
              last.ret.value =
                 IF Val(last.analysed).has_channel_dim THEN <<>>
                 ELSE <<AddOneDimension>>

\* An image node whose analyser reported a channel dimension returned its
\* chain.
C9_Witness ==
    /\ last.op = "get_hyper_preprocessors"
    /\ last.pre.kind = "ImageInput"
    /\ last.analysed = Some([has_channel_dim |-> TRUE])
    /\ last.ret = Ok(<<>>)

\* C10: build(), get_adapter(), get_analyser() and get_hyper_preprocessors()
\* leave the shape and the other fields of the node as they were.
C10_ReadOpsKeepConfig == last.op \in ReadOps => node = last.pre

\* -------------------------------------------------- MultiCategoryEncoding
INT == "int"
NONE == "none"
ONE_HOT == "one-hot"

Tags == {NONE, INT, ONE_HOT}

\* The strings of a structured data cell: a numeric string, the string a
\* missing number is written as, and a string that is no number.
Values == {"1.5", "NaN", "abc"}

\* A float32: not-a-number, or a value counted in tenths.
Float(tenths) == [nan |-> FALSE, tenths |-> tenths]
NaN == [nan |-> TRUE, tenths |-> 0]

\* tf.strings.to_number(s, tf.float32) on one string: the number the string
\* spells ("NaN" spells not-a-number); a string that spells no number makes
\* the operation raise InvalidArgumentError.
to_number(v) ==
    CASE v = "1.5" -> Ok(Float(15))
      [] v = "NaN" -> Ok(NaN)
      [] OTHER -> Err("InvalidArgumentError")

\* A batch is a matrix of strings, rows of equal length; its cell count is
\* bounded.
Matrices ==
    UNION {[1..r -> [1..c -> Values]] :
              <<r, c>> \in {rc \in (1..MaxCells) \X (1..MaxCells) :
                               rc[1] * rc[2] <= MaxCells}}

Rows(m) == Len(m)
Cols(m) == Len(m[1])
Column(m, j) == [r \in 1..Rows(m) |-> m[r][j]]

\* preprocessing.StringLookup(): no vocabulary until it is adapted.
StringLookup == [vocabulary |-> <<>>]

\* The order of Python strings on Values.
Rank(v) == CASE v = "1.5" -> 1 [] v = "NaN" -> 2 [] v = "abc" -> 3

Count(col, v) == Cardinality({r \in DOMAIN col : col[r] = v})

\* StringLookup.adapt: the distinct strings of the column, the most frequent
\* first, equally frequent ones in descending string order.
Vocabulary(col) ==
    LET seen == {col[r] : r \in DOMAIN col}
        Before(a, b) ==
            \/ Count(col, a) > Count(col, b)
            \/ Count(col, a) = Count(col, b) /\ Rank(a) > Rank(b)
    IN  CHOOSE voc \in [1..Cardinality(seen) -> seen] :
            \A i, j \in DOMAIN voc : i < j => Before(voc[i], voc[j])

\* StringLookup.__call__ on one string: index 0 is the mask token, index 1
\* the out-of-vocabulary index, the vocabulary follows.
Lookup(lookup, v) ==
    LET voc == lookup.vocabulary
    IN  IF \E i \in DOMAIN voc : voc[i] = v
        THEN 1 + (CHOOSE i \in DOMAIN voc : voc[i] = v)
        ELSE 1

\* The layers __init__ appends, tag by tag: none for "none" and for "one-hot",
\* a lookup for "int", nothing for any other string.
RECURSIVE EncodingLayers(_)
EncodingLayers(encoding) ==
    IF encoding = <<>> THEN <<>>
    ELSE LET tag == Head(encoding)
             rest == EncodingLayers(Tail(encoding))
         IN  CASE tag = NONE -> <<None>> \o rest
               [] tag = INT -> <<Some(StringLookup)>> \o rest
               [] tag = ONE_HOT -> <<None>> \o rest
               [] OTHER -> rest

MultiCategoryEncoding_init(encoding) ==
    [encoding |-> encoding, encoding_layers |-> EncodingLayers(encoding)]

Min(a, b) == IF a < b THEN a ELSE b

\* One cell of a column without a layer: parsed, NaN replaced by zero.
Imputed(v) ==
    LET number == to_number(v).value
    IN  IF number.nan THEN Float(0) ELSE number

\* One cell of a column with a lookup: the index as a float32.
Indexed(lookup, v) == Float(10 * Lookup(lookup, v))

\* A plausible slip: the input split into its own columns, so that a wrong
\* number of tags goes unnoticed and zip() drops what has no partner.
MultiCategoryEncoding_call_unchecked(l, inputs) ==
    LET k == Min(Cols(inputs), Len(l.encoding_layers))
        plain == {j \in 1..k : l.encoding_layers[j] = None}
    IN  IF \E j \in plain, r \in 1..Rows(inputs) :
              to_number(inputs[r][j]).status = "error"
        THEN Err("InvalidArgumentError")
        ELSE Ok([r \in 1..Rows(inputs) |->
                    [j \in 1..k |->
                        IF j \in plain THEN Imputed(inputs[r][j])
                        ELSE Indexed(Val(l.encoding_layers[j]), inputs[r][j])]])

\* call: tf.split into len(encoding) columns of width one raises when the
\* input has another number of columns; the columns are zipped with the
\* layers; a column without a layer is parsed and imputed (the parse raises
\* on a string that is no number), a column with a lookup is indexed; the
\* outputs are concatenated in order (a single output is returned as it is).
MultiCategoryEncoding_call(l, inputs) ==
    IF Len(l.encoding) # Cols(inputs) THEN Err("InvalidArgumentError")
    ELSE
    LET k == Min(Len(l.encoding), Len(l.encoding_layers))
        plain == {j \in 1..k : l.encoding_layers[j] = None}
    IN  IF \E j \in plain, r \in 1..Rows(inputs) :
              to_number(inputs[r][j]).status = "error"
        THEN Err("InvalidArgumentError")
        ELSE Ok([r \in 1..Rows(inputs) |->
                    [j \in 1..k |->
                        IF j \in plain THEN Imputed(inputs[r][j])
                        ELSE Indexed(Val(l.encoding_layers[j]), inputs[r][j])]])

\* adapt: every lookup, in order, is fitted on its column of the data; the
\* slice of a column the data does not have raises, and the lookups before
\* it stay fitted.
MultiCategoryEncoding_adapt(l, data) ==
    LET lookups == {j \in DOMAIN l.encoding_layers : l.encoding_layers[j] # None}
        fitted == {j \in lookups : j <= Cols(data)}
    IN  [layer |->
            [l EXCEPT !.encoding_layers =
                [j \in DOMAIN l.encoding_layers |->
                    IF j \in fitted
                    THEN Some([vocabulary |-> Vocabulary(Column(data, j))])
                    ELSE l.encoding_layers[j]]],
         ret |-> IF fitted = lookups THEN Ok(None)
                 ELSE Err("InvalidArgumentError")]

MultiCategoryEncoding_get_config(l) == [encoding |-> l.encoding]

\* from_config of a Keras layer: cls(**config).
MultiCategoryEncoding_from_config(config) ==
    MultiCategoryEncoding_init(config.encoding)

\* ------------------------------------------------------- encoding machine
\* The layer is built with one tag or with two.
TagCounts == {1, 2}

Encodings == UNION {[1..t -> Tags] : t \in TagCounts}

EncFrame == UNCHANGED <<node, last, max_seq_len, tok_last>>

EncInit ==
    /\ \E encoding \in Encodings : layer = MultiCategoryEncoding_init(encoding)
    /\ enc_last = [op |-> "init"]
    /\ node = [kind |-> "Input", shape |-> None]
    /\ last = Idle
    /\ max_seq_len = 0
    /\ tok_last = Idle

\* build(input_shape) builds the lookups and changes nothing of the layer.
EncBuild ==
    /\ layer' = layer
    /\ enc_last' = [op |-> "build", pre |-> layer, ret |-> Ok(None)]
    /\ EncFrame

EncAdapt ==
    \E data \in Matrices :
        LET r == MultiCategoryEncoding_adapt(layer, data)
        IN  /\ layer' = r.layer
            /\ enc_last' = [op |-> "adapt", pre |-> layer, ret |-> r.ret]
            /\ EncFrame

EncCall ==
    \E inputs \in Matrices :
        /\ layer' = layer
        /\ enc_last' = [op |-> "call", arg |-> inputs, pre |-> layer,
                        ret |-> MultiCategoryEncoding_call(layer, inputs)]
        /\ EncFrame

\* The layer is saved and the pipeline goes on with the restored layer.
EncRestore ==
    /\ layer' = MultiCategoryEncoding_from_config(
                    MultiCategoryEncoding_get_config(layer))
    /\ enc_last' = [op |-> "restore", pre |-> layer, ret |-> Ok(None)]
    /\ EncFrame

EncNext ==
    \/ EncBuild
    \/ EncAdapt
    \/ EncCall
    \/ EncRestore

EncSpec == EncInit /\ [][EncNext]_vars

\* -------------------------------------------------------- encoding claims
TagColumns(l, tag) == {j \in DOMAIN l.encoding : l.encoding[j] = tag}

\* C5: a call through a layer whose tags hold "one-hot" ends in an error; a
\* "one-hot" column is never processed.
C5_OneHotRejected ==
    (enc_last.op = "call" /\ TagColumns(enc_last.pre, ONE_HOT) # {}) =>
        enc_last.ret.status = "error"

\* What C6 says of one cell of a "none" column: the number a numeric string
\* spells, and zero for "NaN" and for a string that is no number.
C6_Expected(v) == IF v = "1.5" THEN Float(15) ELSE Float(0)

\* C6: a call on an input with as many columns as tags raises nothing for
\* the values of its "none" columns, and each of them comes out as the
\* number it spells or as zero.
C6_NoneColumnsNeverFail ==
    (enc_last.op = "call"
        /\ Len(enc_last.pre.encoding) = Cols(enc_last.arg)
        /\ TagColumns(enc_last.pre, ONE_HOT) = {}
        /\ TagColumns(enc_last.pre, NONE) # {}) =>
        /\ enc_last.ret.status = "ok"
        /\ \A j \in TagColumns(enc_last.pre, NONE), r \in 1..Rows(enc_last.arg) :
              enc_last.ret.value[r][j] = C6_Expected(enc_last.arg[r][j])

\* C7: a call with a number of tags other than the number of input columns
\* ends in an error and gives no output; with the same number, the output has
\* one column per input column, in order: output column j holds, row by
\* row, the parsed and imputed number of input column j under tag "none" and
\* the index input column j has in the vocabulary of lookup j under "int".
C7_TagCountMatchesColumns ==
    enc_last.op = "call" =>
        LET l == enc_last.pre
            inputs == enc_last.arg
            ret == enc_last.ret
        IN  /\ Len(l.encoding) # Cols(inputs) => ret.status = "error"
            /\ (Len(l.encoding) = Cols(inputs) /\ ret.status = "ok") =>
                  /\ Rows(ret.value) = Rows(inputs)
                  /\ \A r \in 1..Rows(inputs) :
                        /\ DOMAIN ret.value[r] = 1..Cols(inputs)
                        /\ \A j \in TagColumns(l, NONE) :
                              ret.value[r][j] = Imputed(inputs[r][j])
                        /\ \A j \in TagColumns(l, INT) :
                              ret.value[r][j] =
                                 Indexed(Val(l.encoding_layers[j]), inputs[r][j])

\* Two columns under the tags ("int", "none"), the lookup fitted on "abc",
\* gave an output of two columns: the index of "abc" and the number 1.5.
C7_Witness ==
    /\ enc_last.op = "call"
    /\ enc_last.pre.encoding = <<INT, NONE>>
    /\ Val(enc_last.pre.encoding_layers[1]).vocabulary # <<>>
    /\ enc_last.arg = <<<<"abc", "1.5">>>>
    /\ enc_last.ret = Ok(<<<<Float(20), Float(15)>>>>)

\* Two columns under one tag ended in an error.
C7_WitnessMismatch ==
    /\ enc_last.op = "call"
    /\ Len(enc_last.pre.encoding) = 1
    /\ Cols(enc_last.arg) = 2
    /\ enc_last.ret.status = "error"

\* C8, for the encoding layer: the layer rebuilt from its saved configuration
\* transforms every input as the layer that was saved.
C8_RoundTripEncoding ==
    \A inputs \in Matrices :
        MultiCategoryEncoding_call(
            MultiCategoryEncoding_from_config(
                MultiCategoryEncoding_get_config(layer)), inputs)
        = MultiCategoryEncoding_call(layer, inputs)

\* ----------------------------------------- TextVectorizationWithTokenizer
\* The ids the docstring of encode_sentence gives the special tokens.
UNK_ID == 100
CLS_ID == 101
SEP_ID == 102

\* A sentence is a string of words; the words are told apart, not spelled.
Words == {"Hi", "there"}

Sentences == UNION {[1..n -> Words] : n \in 0..MaxWords}

\* tokenizer.tokenize of the uncased tokenizer: one lower-case token a word.
tokenize(s) == [i \in DOMAIN s |-> IF s[i] = "Hi" THEN "hi" ELSE s[i]]

\* tokenizer.convert_tokens_to_ids: the id of each token in the vocabulary.
TokenId(t) ==
    CASE t = "[UNK]" -> UNK_ID
      [] t = "[CLS]" -> CLS_ID
      [] t = "[SEP]" -> SEP_ID
      [] t = "hi" -> 7632
      [] t = "there" -> 2045

convert_tokens_to_ids(tokens) == [i \in DOMAIN tokens |-> TokenId(tokens[i])]

Max(a, b) == IF a > b THEN a ELSE b

\* The Python slice seq[0:stop]; a negative stop counts from the end.
SliceTo(seq, stop) ==
    SubSeq(seq, 1, IF stop < 0 THEN Max(Len(seq) + stop, 0)
                   ELSE Min(stop, Len(seq)))

\* The Python list [x] * n; n <= 0 gives the empty list.
Repeat(x, n) == [i \in 1..n |-> x]

\* A plausible slip: the sentence cut to its length before the separator is
\* appended, so that the separator is never lost.
encode_sentence_cut_first(L, s) ==
    LET tokens == SliceTo(tokenize(s), L - 2) \o <<"[SEP]">>
    IN  convert_tokens_to_ids(
            tokens \o Repeat("[UNK]", L - Len(tokens) - 1))

\* encode_sentence of a layer with max_seq_len L.
encode_sentence(L, s) ==
    LET tokens == tokenize(s) \o <<"[SEP]">>
    IN  convert_tokens_to_ids(
            IF Len(tokens) < L - 1
            THEN tokens \o Repeat("[UNK]", L - Len(tokens) - 1)
            ELSE SliceTo(tokens, L - 1))

\* The input tensor has one row a sentence, the sentence in its only column.
get_encoded_sentence(L, input_tensor) ==
    [i \in DOMAIN input_tensor |-> encode_sentence(L, input_tensor[i][1])]

ones_like(m) == [i \in DOMAIN m |-> [j \in DOMAIN m[i] |-> 1]]
zeros_like(m) == [i \in DOMAIN m |-> [j \in DOMAIN m[i] |-> 0]]

\* tf.concat([a, b], axis=-1) of two matrices with the same rows.
ConcatLast(a, b) == [i \in DOMAIN a |-> a[i] \o b[i]]

\* A plausible slip: the mask of the real tokens only, padding masked out.
bert_encode_masking_padding(L, input_tensor) ==
    LET sentence == get_encoded_sentence(L, input_tensor)
        cls == Repeat(convert_tokens_to_ids(<<"[CLS]">>), Len(sentence))
        input_word_ids == ConcatLast(cls, sentence)
        input_mask ==
            [i \in DOMAIN input_word_ids |->
                [j \in DOMAIN input_word_ids[i] |->
                    IF input_word_ids[i][j] = UNK_ID THEN 0 ELSE 1]]
        input_type_ids == ConcatLast(zeros_like(cls), zeros_like(sentence))
    IN  <<input_word_ids, input_mask, input_type_ids>>

\* bert_encode: the stack of the ids, the mask and the type ids.
bert_encode(L, input_tensor) ==
    LET sentence == get_encoded_sentence(L, input_tensor)
        cls == Repeat(convert_tokens_to_ids(<<"[CLS]">>), Len(sentence))
        input_word_ids == ConcatLast(cls, sentence)
        input_mask == ones_like(input_word_ids)
        type_cls == zeros_like(cls)
        type_s1 == zeros_like(sentence)
        input_type_ids == ConcatLast(type_cls, type_s1)
    IN  <<input_word_ids, input_mask, input_type_ids>>

\* call: bert_encode run outside the graph on the whole batch.
TextVectorizationWithTokenizer_call(L, inputs) == bert_encode(L, inputs)

\* ------------------------------------------------------ tokenizer machine
\* A batch holds one sentence or two.
BatchSizes == {1, 2}

Batches == UNION {[1..b -> {<<s>> : s \in Sentences}] : b \in BatchSizes}

TokFrame == UNCHANGED <<node, last, layer, enc_last, max_seq_len>>

TokInit ==
    /\ max_seq_len \in 1..MaxSeqLen
    /\ tok_last = [op |-> "init"]
    /\ node = [kind |-> "Input", shape |-> None]
    /\ last = Idle
    /\ layer = IdleEnc
    /\ enc_last = Idle

EncodeSentence ==
    \E s \in Sentences :
        /\ tok_last' = [op |-> "encode_sentence", arg |-> s,
                        ret |-> encode_sentence(max_seq_len, s)]
        /\ TokFrame

BertEncode ==
    \E batch \in Batches :
        /\ tok_last' = [op |-> "bert_encode", arg |-> batch,
                        ret |-> bert_encode(max_seq_len, batch)]
        /\ TokFrame

TokCall ==
    \E batch \in Batches :
        /\ tok_last' = [op |-> "call", arg |-> batch,
                        ret |-> TextVectorizationWithTokenizer_call(
                                    max_seq_len, batch)]
        /\ TokFrame

TokNext ==
    \/ EncodeSentence
    \/ BertEncode
    \/ TokCall

TokSpec == TokInit /\ [][TokNext]_vars

\* ------------------------------------------------------- tokenizer claims
\* C3: the encoding of a sentence with tokens T, under max_seq_len L, is the
\* ids of the first L-1 elements of T, [SEP], [UNK], [UNK], ...: its length
\* is L-1, the separator stands right after T when T is shorter than L-1 and
\* is lost otherwise, and only padding follows the separator.
C3_EncodeSentence ==
    tok_last.op = "encode_sentence" =>
        LET L == max_seq_len
            T == tokenize(tok_last.arg)
            n == Len(T)
            padded == T \o <<"[SEP]">> \o [i \in 1..L |-> "[UNK]"]
            ret == tok_last.ret
        IN  /\ Len(ret) = L - 1
            /\ \A i \in 1..(L - 1) : ret[i] = TokenId(padded[i])
            /\ n < L - 1 =>
                  /\ ret[n + 1] = SEP_ID
                  /\ \A i \in (n + 2)..(L - 1) : ret[i] = UNK_ID
            /\ n >= L - 1 => \A i \in 1..(L - 1) : ret[i] # SEP_ID

\* The tokens (hi, there) under max_seq_len 5 came out as hi, there, [SEP],
\* [UNK].
C3_Witness ==
    /\ tok_last.op = "encode_sentence"
    /\ max_seq_len = 5
    /\ tokenize(tok_last.arg) = <<"hi", "there">>
    /\ tok_last.ret = <<7632, 2045, SEP_ID, UNK_ID>>

\* The separator was lost: two tokens under max_seq_len 3.
C3_WitnessTruncated ==
    /\ tok_last.op = "encode_sentence"
    /\ max_seq_len = 3
    /\ tokenize(tok_last.arg) = <<"hi", "there">>
    /\ tok_last.ret = <<7632, 2045>>

\* C4: the encoding of a batch of B sentences under max_seq_len L is the
\* triple (ids, mask, type ids), each of B rows of length L: a row of ids is
\* the [CLS] id and then the L-1 ids of its sentence, the mask is 1 and the
\* type id 0 at every position.
C4_BertEncode ==
    tok_last.op = "bert_encode" =>
        LET L == max_seq_len
            B == Len(tok_last.arg)
            ret == tok_last.ret
        IN  /\ Len(ret) = 3
            /\ \A c \in 1..3 :
                  /\ Len(ret[c]) = B
                  /\ \A i \in 1..B : Len(ret[c][i]) = L
            /\ \A i \in 1..B :
                  /\ ret[1][i][1] = CLS_ID
                  /\ SubSeq(ret[1][i], 2, L) =
                        encode_sentence(L, tok_last.arg[i][1])
                  /\ \A j \in 1..L : ret[2][i][j] = 1 /\ ret[3][i][j] = 0

\* A batch of two sentences, the second one padded, was encoded under
\* max_seq_len 4.
C4_Witness ==
    /\ tok_last.op = "bert_encode"
    /\ max_seq_len = 4
    /\ tok_last.arg = <<<<(<<"Hi", "there">>)>>, <<(<<"Hi">>)>>>>
    /\ tok_last.ret[1] = <<(<<CLS_ID, 7632, 2045, SEP_ID>>),
                           (<<CLS_ID, 7632, SEP_ID, UNK_ID>>)>>
    /\ tok_last.ret[2] = <<(<<1, 1, 1, 1>>), (<<1, 1, 1, 1>>)>>

=============================================================================
